---- MODULE Spec2Model ----
(***************************************************************************)
(* PrChecker (src/src/behaviors/PrChecker.ts): the webhook handlers that   *)
(* gate a pull request on a review by a QE user through GitHub Check Runs. *)
(*                                                                         *)
(* The GitHub side (pull requests, their reviews, the check runs) is the   *)
(* state the handlers read and write through API calls.  The handlers that *)
(* issue a single API call are one action each; doChecks, which awaits a   *)
(* sequence of API calls, takes one step per call and its response.        *)
(***************************************************************************)
EXTENDS Integers, Sequences, FiniteSets, TLC

\* ---------------------------------------------------------------- bounds
MaxPrs == 2          \* pull requests of the repository
MaxReviews == 2      \* reviews over all pull requests
MaxRuns == 2         \* check runs ever created
PageSize == 1        \* reviews per page of pulls.listReviews

\* ------------------------------------------------------------- constants
CHECK_NAME == "Kiali - PR"
APP_ID == 1
KIALI_BOT_USER == "kiali-bot"
HttpCreated == 201
HttpOk == 200

AppIds == {APP_ID, APP_ID + 1}
CheckNames == {CHECK_NAME, "ci/build"}
Shas == {"sha1", "sha2"}
Reviewers == {"edgarHzg", "israel-hdez", "dev"}
Authors == {KIALI_BOT_USER, "dev"}
ReviewStates == {"APPROVED", "CHANGES_REQUESTED", "DISMISSED"}
Statuses == {"queued", "in_progress", "completed"}

\* What an API call can answer: a rejected promise (octokit rejects on a
\* network error or an HTTP error), the expected status, or another 2xx status.
\* A call takes effect at GitHub when it answers the expected status.
Answers(expected) == {[resolved |-> FALSE, status |-> 0],
                      [resolved |-> TRUE, status |-> expected],
                      [resolved |-> TRUE, status |-> expected + 3]}

\* ------------------------------------------------------------ pure parts
\* findQeUsers with a login that is no QE user.
findQeUsersWithDev == <<"edgarHzg", "israel-hdez", "dev">>

findQeUsers == <<"edgarHzg", "israel-hdez">>

Includes(seq, x) == \E i \in 1..Len(seq) : seq[i] = x

\* utils/OctokitUtils: TRUE when the check of the response status throws.
checkResponseStatus(response, expectedStatus) == response.status # expectedStatus

checkResponseWith(response) == checkResponseStatus(response, HttpOk)

\* An awaited call failed: it rejected, or the check of its status throws.
Failed(response, expected) ==
    ~response.resolved \/ checkResponseStatus(response, expected)

\* isOwnedCheckRun with the test of the name inverted.
isOwnedCheckRunNameInverted(checkRun) ==
    ~(checkRun.app # APP_ID /\ checkRun.name = CHECK_NAME)

\* isOwnedCheckRun requiring both the app id and the name.
isOwnedCheckRunBoth(checkRun) ==
    checkRun.app = APP_ID /\ checkRun.name = CHECK_NAME

isOwnedCheckRun(checkRun) ==
    ~(checkRun.app # APP_ID /\ checkRun.name # CHECK_NAME)

\* ShortcutCondition without the submitted action.
ShortcutConditionEditedOnly(action, reviewState) ==
    action = "edited" /\ reviewState = "approved"

\* ShortcutCondition without the test of the review state.
ShortcutConditionAnyState(action, reviewState) ==
    action = "edited" \/ action = "submitted"

ShortcutCondition(action, reviewState) ==
    (action = "edited" \/ action = "submitted") /\ reviewState = "approved"

\* FoldPage keeping the first state recorded for a login.
RECURSIVE FoldPageFirstWins(_, _)
FoldPageFirstWins(prReviews, page) ==
    IF page = <<>> THEN prReviews
    ELSE FoldPageFirstWins(
            IF prReviews[Head(page).user] = ""
            THEN [prReviews EXCEPT ![Head(page).user] = Head(page).state]
            ELSE prReviews,
            Tail(page))

\* prReviews[val.user.login] = val.state for every review of a page, in order.
RECURSIVE FoldPage(_, _)
FoldPage(prReviews, page) ==
    IF page = <<>> THEN prReviews
    ELSE FoldPage([prReviews EXCEPT ![Head(page).user] = Head(page).state],
                  Tail(page))

\* Conclusion counting the approval of any reviewer.
ConclusionAnyReviewer(qeUsers, prReviews) ==
    IF \E u \in DOMAIN prReviews : prReviews[u] = "APPROVED"
    THEN "success" ELSE "failure"

Conclusion(qeUsers, prReviews) ==
    IF \E i \in 1..Len(qeUsers) :
          prReviews[qeUsers[i]] # "" /\ prReviews[qeUsers[i]] = "APPROVED"
    THEN "success" ELSE "failure"

NoReviews == [u \in Reviewers |-> ""]

\* The pages pulls.listReviews delivers for a list of reviews: the first page
\* always, then one page per PageSize reviews.
NumPages(reviews) ==
    IF Len(reviews) = 0 THEN 1 ELSE (Len(reviews) + PageSize - 1) \div PageSize

Page(reviews, k) ==
    SubSeq(reviews, (k - 1) * PageSize + 1,
           IF k * PageSize < Len(reviews) THEN k * PageSize ELSE Len(reviews))

\* ----------------------------------------------------------------- state
VARIABLES
    prs,        \* GitHub: pull request number -> author, head sha, reviews
    checkRuns,  \* GitHub: check run id -> the check run
    dc,         \* check run id -> the doChecks invocation of its created event
    last,       \* the queuing handler invoked by the latest step, if any
    budget      \* the number of webhook events the scenario still delivers

vars == <<prs, checkRuns, dc, last, budget>>

Review == [user : Reviewers, state : ReviewStates]

ReviewLists == UNION {[1..n -> Review] : n \in 0..MaxReviews}

RECURSIVE TotalReviews(_, _)
TotalReviews(world, n) ==
    IF n = 0 THEN 0 ELSE Len(world[n].reviews) + TotalReviews(world, n - 1)

\* The repositories the handlers can run against.  Pull request 1 is on sha1
\* (the names of the commits are interchangeable).
Worlds ==
    {w \in [1..MaxPrs -> [author : Authors, sha : Shas, reviews : ReviewLists]] :
        /\ w[1].sha = "sha1"
        /\ TotalReviews(w, MaxPrs) <= MaxReviews}

\* The calls a handler issues, in order.
CreateCall(sha, status, conclusion) ==
    [op |-> "checks.create", sha |-> sha, id |-> 0, number |-> 0, page |-> 0,
     status |-> status, conclusion |-> conclusion]
UpdateCall(id, status, conclusion) ==
    [op |-> "checks.update", sha |-> "", id |-> id, number |-> 0, page |-> 0,
     status |-> status, conclusion |-> conclusion]
LookupCall(sha) ==
    [op |-> "getOrQueryPrsForCommit", sha |-> sha, id |-> 0, number |-> 0,
     page |-> 0, status |-> "", conclusion |-> ""]
GetCall(number) ==
    [op |-> "pulls.get", sha |-> "", id |-> 0, number |-> number, page |-> 0,
     status |-> "", conclusion |-> ""]
ListCall(number, page) ==
    [op |-> "pulls.listReviews", sha |-> "", id |-> 0, number |-> number,
     page |-> page, status |-> "", conclusion |-> ""]

\* GitHub creates a check run and emits its check_run.created event, whose
\* payload is the check run as created.
NewRun(app, name, sha, status, conclusion, via) ==
    [app |-> app, name |-> name, head_sha |-> sha, status |-> status,
     conclusion |-> conclusion, via |-> via]

Pending(run) ==
    [pc |-> "pending", payload |-> run, prList |-> <<>>, i |-> 0, k |-> 0,
     prReviews |-> NoReviews, conclusion |-> "", calls |-> <<>>,
     settled |-> "", caught |-> FALSE]

GitHubCreates(run) ==
    /\ checkRuns' = Append(checkRuns, run)
    /\ dc' = Append(dc, Pending(run))

\* One invocation of a queuing handler: the event, the calls it issued, the
\* answer to its call, how its promise settled and how the promise of a
\* createCheckRun it did not await settled.
Handled(h, action, state, sender, pr, sha, app, name, calls, answer, s, f) ==
    [handler |-> h, action |-> action, state |-> state,
     sender |-> sender, pr |-> pr, sha |-> sha, app |-> app, name |-> name,
     calls |-> calls, answer |-> answer, settled |-> s, floating |-> f]

NoAnswer == [resolved |-> TRUE, status |-> 0]

NoHandler == Handled("", "", "", "", 0, "", 0, "", <<>>, NoAnswer, "", "")

\* The repositories against which several check runs are followed: one
\* review at most, an approval of the first QE user on pull request 1.
SmallWorlds ==
    {w \in Worlds :
        /\ \A n \in 2..MaxPrs : w[n].reviews = <<>> /\ w[n].author = "dev"
        /\ w[1].reviews \in {<<>>, <<[user |-> findQeUsers[1],
                                      state |-> "APPROVED"]>>}}

\* Either any repository and a single event for the queuing handlers, or a
\* small repository and MaxRuns such events.
Init ==
    /\ \/ prs \in Worlds /\ budget = 1
       \/ prs \in SmallWorlds /\ budget = MaxRuns
    /\ checkRuns = <<>>
    /\ dc = <<>>
    /\ last = NoHandler

\* ------------------------------------------------------ queuing handlers
\* createCheckRun: one checks.create with status queued; try/finally, so a
\* rejected call or a thrown status check rejects the returned promise.
\* Gives the settlement of that promise.
createCheckRunSettles(answer) ==
    IF Failed(answer, HttpCreated) THEN "rejected" ELSE "resolved"

\* createCheckRun creating the check run under another name.
createCheckRunOtherName(sha, answer) ==
    IF createCheckRunSettles(answer) = "resolved"
    THEN GitHubCreates(NewRun(APP_ID, "ci/build", sha, "queued", "", ""))
    ELSE UNCHANGED <<checkRuns, dc>>

createCheckRun(sha, answer) ==
    IF createCheckRunSettles(answer) = "resolved"
    THEN GitHubCreates(NewRun(APP_ID, CHECK_NAME, sha, "queued", "", ""))
    ELSE UNCHANGED <<checkRuns, dc>>

\* pull_request.opened / pull_request.reopened
pullRequestEventHandler ==
    \E p \in DOMAIN prs, action \in {"opened", "reopened"},
       answer \in Answers(HttpCreated) :
        /\ budget > 0
        /\ createCheckRun(prs[p].sha, answer)
        /\ last' = Handled("pull_request", action, "", "", p, prs[p].sha, 0, "",
                           <<CreateCall(prs[p].sha, "queued", "")>>, answer,
                           "resolved", createCheckRunSettles(answer))
        /\ budget' = budget - 1
        /\ UNCHANGED prs

\* check_run.rerequested, for any check run of the repository
checkRerequestedHandler ==
    \E c \in DOMAIN checkRuns, answer \in Answers(HttpCreated) :
        LET run == checkRuns[c]
        IN  /\ budget > 0
            /\ IF ~isOwnedCheckRun(run)
               THEN /\ UNCHANGED <<checkRuns, dc>>
                    /\ last' = Handled("check_run", "rerequested", "", "", 0,
                                       run.head_sha, run.app, run.name, <<>>,
                                       NoAnswer, "resolved", "")
               ELSE /\ createCheckRun(run.head_sha, answer)
                    /\ last' = Handled("check_run", "rerequested", "", "", 0,
                                       run.head_sha, run.app, run.name,
                                       <<CreateCall(run.head_sha, "queued", "")>>,
                                       answer, "resolved",
                                       createCheckRunSettles(answer))
            /\ budget' = budget - 1
            /\ UNCHANGED prs

\* The last state a user's reviews have in a list of reviews.
LatestReview(reviews, user) ==
    LET idx == {i \in 1..Len(reviews) : reviews[i].user = user}
    IN  IF idx = {} THEN ""
        ELSE reviews[CHOOSE i \in idx : \A j \in idx : j <= i].state

\* The review events the handler is subscribed to, and the review states a
\* payload carries. The handler reads the action, the review state and the
\* sender from the payload alone: an event may be handled after later reviews
\* of the pull request, and for a review that is only a comment.
ReviewActions == {"submitted", "dismissed"}

PayloadStates == {"approved", "changes_requested", "commented", "dismissed"}

ReviewEvents ==
    [action : ReviewActions, state : PayloadStates, sender : Reviewers]

\* pull_request_review.submitted / pull_request_review.dismissed
pullRequestReviewEventHandler ==
    \E p \in DOMAIN prs :
    \E ev \in ReviewEvents :
    \E answer \in Answers(HttpCreated) :
        /\ budget > 0
        /\ IF ShortcutCondition(ev.action, ev.state)
              /\ Includes(findQeUsers, ev.sender)
           THEN \* the awaited create of a completed check run, then return;
                \* try/finally: a failure rejects the handler's promise
                /\ IF Failed(answer, HttpCreated)
                   THEN UNCHANGED <<checkRuns, dc>>
                   ELSE GitHubCreates(NewRun(APP_ID, CHECK_NAME, prs[p].sha,
                                             "completed", "success", "shortcut"))
                /\ last' = Handled("pull_request_review", ev.action, ev.state,
                                   ev.sender, p, prs[p].sha, 0, "",
                                   <<CreateCall(prs[p].sha, "completed",
                                                "success")>>,
                                   answer,
                                   IF Failed(answer, HttpCreated)
                                   THEN "rejected" ELSE "resolved", "")
           ELSE /\ createCheckRun(prs[p].sha, answer)
                /\ last' = Handled("pull_request_review", ev.action, ev.state,
                                   ev.sender, p, prs[p].sha, 0, "",
                                   <<CreateCall(prs[p].sha, "queued", "")>>,
                                   answer, "resolved",
                                   createCheckRunSettles(answer))
        /\ budget' = budget - 1
        /\ UNCHANGED prs

\* A check run created by someone else (another app, or another behaviour of
\* this app): its check_run.created event is delivered to doChecks as well.
OtherCheckRunCreated ==
    \E app \in AppIds, name \in CheckNames, sha \in Shas, status \in Statuses :
        /\ budget > 0
        /\ ~(app = APP_ID /\ name = CHECK_NAME)
        /\ GitHubCreates(NewRun(app, name, sha, status,
                                IF status = "completed" THEN "failure" ELSE "",
                                ""))
        /\ last' = NoHandler
        /\ budget' = budget - 1
        /\ UNCHANGED prs

\* ---------------------------------------------------------------- doChecks
\* The orders in which getOrQueryPrsForCommit can list a set of pull requests.
RECURSIVE Orders(_)
Orders(S) ==
    IF S = {} THEN {<<>>}
    ELSE UNION {{<<n>> \o rest : rest \in Orders(S \ {n})} : n \in S}

\* utils/PrQueries: the pull requests associated with a commit.
getOrQueryPrsForCommit(sha) == Orders({n \in DOMAIN prs : prs[n].sha = sha})

\* The handler returns: nothing more is awaited.
Returned(inv, calls, settled, caught) ==
    [inv EXCEPT !.pc = "done", !.i = 0, !.k = 0, !.calls = calls,
                !.settled = settled, !.caught = caught]

\* catch { this.app.log.error(...) }: the error is logged, the handler returns.
Caught(inv, calls) == Returned(inv, calls, "resolved", TRUE)

\* GitHub applies a checks.update.
GitHubUpdates(c, status, conclusion, via) ==
    checkRuns' = [checkRuns EXCEPT ![c].status = status,
                                   ![c].conclusion = conclusion,
                                   ![c].via = via]

\* check_run.created of a check run that is not owned: return.
doChecksNotOwned(c) ==
    /\ dc[c].pc = "pending"
    /\ ~isOwnedCheckRun(dc[c].payload)
    /\ dc' = [dc EXCEPT ![c] = Returned(@, <<>>, "resolved", FALSE)]
    /\ last' = NoHandler
    /\ UNCHANGED <<prs, checkRuns, budget>>

\* check_run.created of an owned check run that is not queued: return.
doChecksNotQueued(c) ==
    /\ dc[c].pc = "pending"
    /\ isOwnedCheckRun(dc[c].payload)
    /\ dc[c].payload.status # "queued"
    /\ dc' = [dc EXCEPT ![c] = Returned(@, <<>>, "resolved", FALSE)]
    /\ last' = NoHandler
    /\ UNCHANGED <<prs, checkRuns, budget>>

\* doChecksLookup without the test of the status.
doChecksLookupAnyStatus(c) ==
    /\ dc[c].pc = "pending"
    /\ isOwnedCheckRun(dc[c].payload)
    /\ LET calls == <<LookupCall(dc[c].payload.head_sha)>>
       IN  \/ dc' = [dc EXCEPT ![c] = Caught(@, calls)]
           \/ \E list \in getOrQueryPrsForCommit(dc[c].payload.head_sha) :
                dc' = [dc EXCEPT ![c].calls = calls,
                                 ![c].prList = list,
                                 ![c].i = 1,
                                 ![c].pc = IF list = <<>> THEN "inProgress"
                                           ELSE "get"]
    /\ last' = NoHandler
    /\ UNCHANGED <<prs, checkRuns, budget>>

\* check_run.created of an owned, queued check run: look the pull requests up.
doChecksLookup(c) ==
    /\ dc[c].pc = "pending"
    /\ isOwnedCheckRun(dc[c].payload)
    /\ dc[c].payload.status = "queued"
    /\ LET calls == <<LookupCall(dc[c].payload.head_sha)>>
       IN  \/ dc' = [dc EXCEPT ![c] = Caught(@, calls)]
           \/ \E list \in getOrQueryPrsForCommit(dc[c].payload.head_sha) :
                dc' = [dc EXCEPT ![c].calls = calls,
                                 ![c].prList = list,
                                 ![c].i = 1,
                                 ![c].pc = IF list = <<>> THEN "inProgress"
                                           ELSE "get"]
    /\ last' = NoHandler
    /\ UNCHANGED <<prs, checkRuns, budget>>

\* doChecksGet testing the author of the first pull request only.
doChecksGetFirstOnly(c) ==
    /\ dc[c].pc = "get"
    /\ \E answer \in Answers(HttpOk) :
        LET n == dc[c].prList[dc[c].i]
            calls == Append(dc[c].calls, GetCall(n))
        IN  dc' = [dc EXCEPT ![c] =
                IF Failed(answer, HttpOk) THEN Caught(@, calls)
                ELSE IF prs[n].author = KIALI_BOT_USER /\ @.i = 1
                     THEN [@ EXCEPT !.calls = calls, !.pc = "markBot", !.i = 0]
                ELSE IF @.i < Len(@.prList)
                     THEN [@ EXCEPT !.calls = calls, !.i = @ + 1]
                ELSE [@ EXCEPT !.calls = calls, !.pc = "inProgress", !.i = 0]]
    /\ last' = NoHandler
    /\ UNCHANGED <<prs, checkRuns, budget>>

\* for (const pr of pull_requests): pulls.get and the test of the author.
doChecksGet(c) ==
    /\ dc[c].pc = "get"
    /\ \E answer \in Answers(HttpOk) :
        LET n == dc[c].prList[dc[c].i]
            calls == Append(dc[c].calls, GetCall(n))
        IN  dc' = [dc EXCEPT ![c] =
                IF Failed(answer, HttpOk) THEN Caught(@, calls)
                ELSE IF prs[n].author = KIALI_BOT_USER
                     THEN [@ EXCEPT !.calls = calls, !.pc = "markBot", !.i = 0]
                ELSE IF @.i < Len(@.prList)
                     THEN [@ EXCEPT !.calls = calls, !.i = @ + 1]
                ELSE [@ EXCEPT !.calls = calls, !.pc = "inProgress", !.i = 0]]
    /\ last' = NoHandler
    /\ UNCHANGED <<prs, checkRuns, budget>>

\* markBotPrAsOk called without return: doChecks goes on after it.
markBotPrAsOkNoReturn(c) ==
    /\ dc[c].pc = "markBot"
    /\ \E answer \in Answers(HttpOk) :
        LET calls == Append(dc[c].calls, UpdateCall(c, "completed", "success"))
        IN  /\ IF Failed(answer, HttpOk) THEN UNCHANGED checkRuns
               ELSE GitHubUpdates(c, "completed", "success", "botpr")
            /\ dc' = [dc EXCEPT ![c] =
                        IF Failed(answer, HttpOk) THEN Caught(@, calls)
                        ELSE [@ EXCEPT !.calls = calls, !.pc = "inProgress"]]
    /\ last' = NoHandler
    /\ UNCHANGED <<prs, budget>>

\* return this.markBotPrAsOk(context): the promise is returned, not awaited,
\* so its rejection is not caught by the try of doChecks.
markBotPrAsOk(c) ==
    /\ dc[c].pc = "markBot"
    /\ \E answer \in Answers(HttpOk) :
        LET calls == Append(dc[c].calls, UpdateCall(c, "completed", "success"))
        IN  /\ IF Failed(answer, HttpOk) THEN UNCHANGED checkRuns
               ELSE GitHubUpdates(c, "completed", "success", "botpr")
            /\ dc' = [dc EXCEPT ![c] =
                        Returned(@, calls,
                                 IF Failed(answer, HttpOk) THEN "rejected"
                                 ELSE "resolved", FALSE)]
    /\ last' = NoHandler
    /\ UNCHANGED <<prs, budget>>

\* doChecksInProgress returning when the commit has no pull request.
doChecksInProgressReturnsWithoutPr(c) ==
    /\ dc[c].pc = "inProgress"
    /\ \E answer \in Answers(HttpOk) :
        LET calls == Append(dc[c].calls, UpdateCall(c, "in_progress", ""))
        IN  /\ IF Failed(answer, HttpOk) THEN UNCHANGED checkRuns
               ELSE GitHubUpdates(c, "in_progress", "", "")
            /\ dc' = [dc EXCEPT ![c] =
                IF Failed(answer, HttpOk) THEN Caught(@, calls)
                ELSE IF @.prList = <<>>
                     THEN Returned(@, calls, "resolved", FALSE)
                ELSE [@ EXCEPT !.calls = calls, !.pc = "reviews",
                               !.i = 1, !.k = 1]]
    /\ last' = NoHandler
    /\ UNCHANGED <<prs, budget>>

\* Mark check as in-progress.
doChecksInProgress(c) ==
    /\ dc[c].pc = "inProgress"
    /\ \E answer \in Answers(HttpOk) :
        LET calls == Append(dc[c].calls, UpdateCall(c, "in_progress", ""))
        IN  /\ IF Failed(answer, HttpOk) THEN UNCHANGED checkRuns
               ELSE GitHubUpdates(c, "in_progress", "", "")
            /\ dc' = [dc EXCEPT ![c] =
                IF Failed(answer, HttpOk) THEN Caught(@, calls)
                ELSE IF @.prList = <<>>
                     THEN [@ EXCEPT !.calls = calls, !.pc = "complete"]
                ELSE [@ EXCEPT !.calls = calls, !.pc = "reviews",
                               !.i = 1, !.k = 1]]
    /\ last' = NoHandler
    /\ UNCHANGED <<prs, budget>>

\* One page of the reviews of one pull request, folded into prReviews.
doChecksReviews(c) ==
    /\ dc[c].pc = "reviews"
    /\ \E answer \in Answers(HttpOk) :
        LET n == dc[c].prList[dc[c].i]
            calls == Append(dc[c].calls, ListCall(n, dc[c].k))
            folded == FoldPage(dc[c].prReviews, Page(prs[n].reviews, dc[c].k))
        IN  dc' = [dc EXCEPT ![c] =
                IF Failed(answer, HttpOk) THEN Caught(@, calls)
                ELSE IF @.k < NumPages(prs[n].reviews)
                     THEN [@ EXCEPT !.calls = calls, !.prReviews = folded,
                                    !.k = @ + 1]
                ELSE IF @.i < Len(@.prList)
                     THEN [@ EXCEPT !.calls = calls, !.prReviews = folded,
                                    !.i = @ + 1, !.k = 1]
                ELSE [@ EXCEPT !.calls = calls, !.prReviews = folded,
                               !.pc = "complete", !.i = 0, !.k = 0]]
    /\ last' = NoHandler
    /\ UNCHANGED <<prs, checkRuns, budget>>

\* doChecksComplete concluding from a mapping shared by the invocations (the
\* mapping of the first one).
doChecksCompleteSharedMapping(c) ==
    /\ dc[c].pc = "complete"
    /\ \E answer \in Answers(HttpOk) :
        LET conclusion == Conclusion(findQeUsers, dc[1].prReviews)
            calls == Append(dc[c].calls, UpdateCall(c, "completed", conclusion))
        IN  /\ IF Failed(answer, HttpOk) THEN UNCHANGED checkRuns
               ELSE GitHubUpdates(c, "completed", conclusion, "reviews")
            /\ dc' = [dc EXCEPT ![c] =
                IF Failed(answer, HttpOk) THEN Caught(@, calls)
                ELSE Returned([@ EXCEPT !.conclusion = conclusion], calls,
                              "resolved", FALSE)]
    /\ last' = NoHandler
    /\ UNCHANGED <<prs, budget>>

\* The conclusion and the update that completes the check run.
doChecksComplete(c) ==
    /\ dc[c].pc = "complete"
    /\ \E answer \in Answers(HttpOk) :
        LET conclusion == Conclusion(findQeUsers, dc[c].prReviews)
            calls == Append(dc[c].calls, UpdateCall(c, "completed", conclusion))
        IN  /\ IF Failed(answer, HttpOk) THEN UNCHANGED checkRuns
               ELSE GitHubUpdates(c, "completed", conclusion, "reviews")
            /\ dc' = [dc EXCEPT ![c] =
                IF Failed(answer, HttpOk) THEN Caught(@, calls)
                ELSE Returned([@ EXCEPT !.conclusion = conclusion], calls,
                              "resolved", FALSE)]
    /\ last' = NoHandler
    /\ UNCHANGED <<prs, budget>>

Next ==
    \/ pullRequestEventHandler
    \/ checkRerequestedHandler
    \/ pullRequestReviewEventHandler
    \/ OtherCheckRunCreated
    \/ \E c \in DOMAIN dc : doChecksNotOwned(c)
    \/ \E c \in DOMAIN dc : doChecksNotQueued(c)
    \/ \E c \in DOMAIN dc : doChecksLookup(c)
    \/ \E c \in DOMAIN dc : doChecksGet(c)
    \/ \E c \in DOMAIN dc : markBotPrAsOk(c)
    \/ \E c \in DOMAIN dc : doChecksInProgress(c)
    \/ \E c \in DOMAIN dc : doChecksReviews(c)
    \/ \E c \in DOMAIN dc : doChecksComplete(c)

Spec == Init /\ [][Next]_vars

\* ----------------------------------------------------------------- claims
\* The pull requests associated with a commit.
Associated(sha) == {n \in DOMAIN prs : prs[n].sha = sha}

IsQe(u) == u \in {"edgarHzg", "israel-hdez"}

\* A QE user's latest review of pull request n is an approval.
QeApproves(n) ==
    \E u \in Reviewers : IsQe(u) /\ LatestReview(prs[n].reviews, u) = "APPROVED"

\* The check runs this bot has completed, by any of its three paths.
CompletedByBot(c) ==
    checkRuns[c].status = "completed" /\ checkRuns[c].via # ""

\* C1: every check run the bot has completed has conclusion success if and
\* only if a QE user's latest review of some pull request associated with the
\* head commit is APPROVED, or an associated pull request is authored by the
\* bot account.
C1_SuccessIffQeApprovedOrBotPr ==
    \A c \in DOMAIN checkRuns :
        CompletedByBot(c) =>
            (checkRuns[c].conclusion = "success" <=>
                \E n \in Associated(checkRuns[c].head_sha) :
                    QeApproves(n) \/ prs[n].author = KIALI_BOT_USER)

\* The reviews the pagination delivers for a list of pull requests, in order.
RECURSIVE Delivered(_)
Delivered(list) ==
    IF list = <<>> THEN <<>>
    ELSE prs[Head(list)].reviews \o Delivered(Tail(list))

HasBotPr(sha) == \E n \in Associated(sha) : prs[n].author = KIALI_BOT_USER

\* The created event was for an owned, queued check run.
Evaluated(c) ==
    /\ dc[c].payload.app = APP_ID \/ dc[c].payload.name = CHECK_NAME
    /\ dc[c].payload.status = "queued"

\* doChecks returned and none of its API calls failed.
AllCallsSucceeded(c) ==
    dc[c].pc = "done" /\ ~dc[c].caught /\ dc[c].settled = "resolved"

IsUpdate(call, status) == call.op = "checks.update" /\ call.status = status

\* C2: an owned, queued check run whose commit has no bot-authored pull
\* request and whose API calls all succeed is completed with conclusion
\* success when the review-state mapping maps a QE user to APPROVED, and with
\* conclusion failure otherwise.
C2_ConclusionFromMapping ==
    \A c \in DOMAIN dc :
        Evaluated(c) /\ AllCallsSucceeded(c)
        /\ ~HasBotPr(dc[c].payload.head_sha) =>
            /\ checkRuns[c].status = "completed"
            /\ checkRuns[c].conclusion \in {"success", "failure"}
            /\ checkRuns[c].conclusion = "success" <=>
                    \E u \in Reviewers : IsQe(u) /\ dc[c].prReviews[u] = "APPROVED"
            /\ Len(dc[c].calls) > 0
            /\ dc[c].calls[Len(dc[c].calls)] =
                    UpdateCall(c, "completed", checkRuns[c].conclusion)

C2_Witness ==
    \E c \in DOMAIN dc :
        /\ Evaluated(c) /\ AllCallsSucceeded(c)
        /\ ~HasBotPr(dc[c].payload.head_sha)
        /\ Len(dc[c].prList) = 2
        /\ checkRuns[c].conclusion = "success"
        /\ dc[c].prReviews["dev"] = "CHANGES_REQUESTED"

\* C3: an owned, queued check run whose commit has a bot-authored pull request
\* is never sent an in_progress update, is never in_progress, and is completed
\* with conclusion success once doChecks has returned without a failed call,
\* wherever the bot-authored pull request stands in the list.
C3_BotPrPassesWithoutInProgress ==
    \A c \in DOMAIN dc :
        Evaluated(c) /\ HasBotPr(dc[c].payload.head_sha) =>
            /\ \A j \in 1..Len(dc[c].calls) : ~IsUpdate(dc[c].calls[j], "in_progress")
            /\ checkRuns[c].status # "in_progress"
            /\ AllCallsSucceeded(c) =>
                    /\ checkRuns[c].status = "completed"
                    /\ checkRuns[c].conclusion = "success"

C3_Witness ==
    \E c \in DOMAIN dc :
        /\ Evaluated(c) /\ AllCallsSucceeded(c)
        /\ Len(dc[c].prList) = 2
        /\ prs[dc[c].prList[1]].author # KIALI_BOT_USER
        /\ prs[dc[c].prList[2]].author = KIALI_BOT_USER
        /\ checkRuns[c].status = "completed"

\* The latest step was the review handler, for an approval.
ApprovalSubmitted ==
    /\ last.handler = "pull_request_review"
    /\ last.action = "submitted"
    /\ last.state = "approved"

\* C4: an approval submitted by a QE user makes the review handler issue one
\* creation call, with status completed and conclusion success, and none with
\* status queued; the check run so created is never queued nor in_progress.
C4_QeApprovalCreatesCompleted ==
    /\ ApprovalSubmitted /\ IsQe(last.sender) =>
            last.calls = <<CreateCall(prs[last.pr].sha, "completed", "success")>>
    /\ \A c \in DOMAIN dc :
            dc[c].payload.via = "shortcut" =>
                /\ checkRuns[c].status = "completed"
                /\ checkRuns[c].conclusion = "success"

C4_Witness ==
    /\ ApprovalSubmitted /\ IsQe(last.sender)
    /\ last.settled = "resolved"
    /\ \E c \in DOMAIN dc : dc[c].payload.via = "shortcut" /\ dc[c].pc = "done"

\* C5: an approval submitted by a user who is not a QE user makes the review
\* handler issue one creation call, with status queued for the head SHA of
\* the pull request, and none with status completed.
C5_OtherApprovalQueues ==
    ApprovalSubmitted /\ ~IsQe(last.sender) =>
        last.calls = <<CreateCall(prs[last.pr].sha, "queued", "")>>

C5_Witness ==
    /\ ApprovalSubmitted /\ ~IsQe(last.sender)
    /\ last.floating = "resolved"
    /\ prs[last.pr].sha = "sha2"

\* The reviews delivered so far to an invocation that is reading pages.
DeliveredSoFar(c) ==
    IF dc[c].pc = "reviews"
    THEN Delivered(SubSeq(dc[c].prList, 1, dc[c].i - 1))
         \o SubSeq(prs[dc[c].prList[dc[c].i]].reviews, 1,
                   (dc[c].k - 1) * PageSize)
    ELSE Delivered(dc[c].prList)

\* APPROVED, then later CHANGES_REQUESTED as the last review of the user.
ApprovedThenChangesRequested(seq, u) ==
    /\ LatestReview(seq, u) = "CHANGES_REQUESTED"
    /\ \E j \in 1..Len(seq) : seq[j] = [user |-> u, state |-> "APPROVED"]

\* C6: the state recorded for a login is the state of the last review
\* delivered for it, over all pages and pull requests; a QE user whose
\* APPROVED is followed by CHANGES_REQUESTED is recorded as CHANGES_REQUESTED
\* and, no other QE user being recorded as APPROVED, the conclusion is
\* failure.
C6_LatestStateWins ==
    \A c \in DOMAIN dc :
        /\ dc[c].pc \in {"reviews", "complete"} \/ dc[c].conclusion # "" =>
                \A u \in Reviewers :
                    dc[c].prReviews[u] = LatestReview(DeliveredSoFar(c), u)
        /\ \A r \in Reviewers :
                /\ dc[c].conclusion # ""
                /\ IsQe(r)
                /\ ApprovedThenChangesRequested(Delivered(dc[c].prList), r)
                /\ \A u \in Reviewers \ {r} :
                        IsQe(u) => dc[c].prReviews[u] # "APPROVED"
                =>  /\ dc[c].prReviews[r] = "CHANGES_REQUESTED"
                    /\ dc[c].conclusion = "failure"
                    /\ checkRuns[c].conclusion = "failure"

C6_Witness ==
    \E c \in DOMAIN dc :
        /\ dc[c].conclusion = "failure"
        /\ Len(dc[c].prList) = 1
        /\ \E r \in Reviewers :
            /\ IsQe(r)
            /\ prs[dc[c].prList[1]].reviews =
                    <<[user |-> r, state |-> "APPROVED"],
                      [user |-> r, state |-> "CHANGES_REQUESTED"]>>
        /\ \E j \in 1..Len(dc[c].calls) :
                dc[c].calls[j] = ListCall(dc[c].prList[1], 2)

\* C7: a check_run.created event whose check run is not queued makes doChecks
\* return without any API call; the check run is left as it was created.
C7_NotQueuedNoCalls ==
    \A c \in DOMAIN dc :
        dc[c].pc # "pending" /\ dc[c].payload.status # "queued" =>
            /\ dc[c].pc = "done"
            /\ dc[c].calls = <<>>
            /\ dc[c].settled = "resolved"
            /\ checkRuns[c] = dc[c].payload

C7_Witness ==
    \E c \in DOMAIN dc :
        /\ dc[c].pc = "done"
        /\ dc[c].payload.status = "in_progress"
        /\ dc[c].payload.name = CHECK_NAME

NotOwned(app, name) == app # APP_ID /\ name # CHECK_NAME

\* C8: a check_run.created or check_run.rerequested event whose check run has
\* another app id and another name makes the handler return without any API
\* call.
C8_NotOwnedNoCalls ==
    /\ \A c \in DOMAIN dc :
            dc[c].pc # "pending"
            /\ NotOwned(dc[c].payload.app, dc[c].payload.name) =>
                /\ dc[c].pc = "done"
                /\ dc[c].calls = <<>>
                /\ checkRuns[c] = dc[c].payload
    /\ last.handler = "check_run" /\ NotOwned(last.app, last.name) =>
            /\ last.calls = <<>>
            /\ last.settled = "resolved"
            /\ last.floating = ""
            /\ Len(checkRuns) = Len(dc)

C8_Witness ==
    /\ last.handler = "check_run" /\ NotOwned(last.app, last.name)
    /\ \E c \in DOMAIN dc :
            /\ dc[c].pc = "done"
            /\ NotOwned(dc[c].payload.app, dc[c].payload.name)
            /\ dc[c].payload.status = "queued"

\* C9: no handler invocation ends with a rejection, neither of the handler's
\* own promise nor of a promise it left unawaited.
C9_NoRejection ==
    /\ last.settled # "rejected"
    /\ last.floating # "rejected"
    /\ \A c \in DOMAIN dc : dc[c].settled # "rejected"

\* C10: when the shortcut condition holds and the creation of the completed
\* check run fails, the review handler goes on to issue a creation call with
\* status queued for the head SHA of the pull request.
C10_FailedShortcutFallsThrough ==
    /\ last.handler = "pull_request_review"
    /\ ShortcutCondition(last.action, last.state)
    /\ IsQe(last.sender)
    /\ last.calls # <<>>
    /\ last.calls[1] = CreateCall(prs[last.pr].sha, "completed", "success")
    /\ ~last.answer.resolved \/ last.answer.status # HttpCreated
    => \E j \in 1..Len(last.calls) :
            last.calls[j] = CreateCall(prs[last.pr].sha, "queued", "")

\* The status the last successful update of an invocation left, its last call
\* being the one that failed.
StatusLeft(c) ==
    IF \E j \in 1..(Len(dc[c].calls) - 1) : IsUpdate(dc[c].calls[j], "in_progress")
    THEN "in_progress" ELSE dc[c].payload.status

\* C11: when an API call of the evaluation sequence of doChecks fails, the
\* error is caught inside doChecks (its promise resolves), no further call is
\* issued, and the check run stays in the status of the last successful
\* update, not completed.
C11_FailureCaughtInDoChecks ==
    \A c \in DOMAIN dc :
        dc[c].pc = "done" /\ Evaluated(c) /\ ~AllCallsSucceeded(c) =>
            /\ dc[c].caught
            /\ dc[c].settled = "resolved"
            /\ checkRuns[c].status = StatusLeft(c)
            /\ checkRuns[c].status # "completed"

\* The update calls issued for check run c, by whichever invocation, in the
\* order of the invocation that issued them.
RECURSIVE UpdatesIn(_, _)
UpdatesIn(calls, c) ==
    IF calls = <<>> THEN <<>>
    ELSE IF Head(calls).op = "checks.update" /\ Head(calls).id = c
         THEN <<[status |-> Head(calls).status,
                 conclusion |-> Head(calls).conclusion]>> \o UpdatesIn(Tail(calls), c)
    ELSE UpdatesIn(Tail(calls), c)

\* The sequences of updates the state machine of a check run allows.
AllowedUpdates ==
    {<<>>,
     <<[status |-> "in_progress", conclusion |-> ""]>>,
     <<[status |-> "completed", conclusion |-> "success"]>>}
    \cup {<<[status |-> "in_progress", conclusion |-> ""],
            [status |-> "completed", conclusion |-> x]>> : x \in {"success", "failure"}}

\* C12: the updates issued for a check run are a prefix of in_progress then
\* completed (success or failure), or of completed success alone; no other
\* invocation issues an update for it, and a check run the bot completed has
\* its completing update as the last one.
C12_UpdatesFollowStateMachine ==
    \A c \in DOMAIN dc :
        /\ UpdatesIn(dc[c].calls, c) \in AllowedUpdates
        /\ \A d \in DOMAIN dc \ {c} : UpdatesIn(dc[d].calls, c) = <<>>
        /\ CompletedByBot(c) /\ dc[c].payload.via = "" =>
                LET u == UpdatesIn(dc[c].calls, c)
                IN  /\ u # <<>>
                    /\ u[Len(u)] = [status |-> "completed",
                                    conclusion |-> checkRuns[c].conclusion]
                    /\ dc[c].pc = "done"

C12_Witness ==
    \E c \in DOMAIN dc, d \in DOMAIN dc :
        /\ Len(UpdatesIn(dc[c].calls, c)) = 2
        /\ UpdatesIn(dc[d].calls, d) = <<[status |-> "completed", conclusion |-> "success"]>>
        /\ checkRuns[c].status = "completed"

\* ------------------------------------------------------------- liveness
\* The next step of the doChecks invocation of check run c: the delivery of
\* its created event, or the answer to the call it awaits.
DoChecksStep(c) ==
    /\ c \in DOMAIN dc
    /\ \/ doChecksNotOwned(c)
       \/ doChecksNotQueued(c)
       \/ doChecksLookup(c)
       \/ doChecksGet(c)
       \/ markBotPrAsOk(c)
       \/ doChecksInProgress(c)
       \/ doChecksReviews(c)
       \/ doChecksComplete(c)

\* Every event is delivered and every awaited call is answered.
Fairness == \A c \in 1..MaxRuns : WF_vars(DoChecksStep(c))

FairSpec == Init /\ [][Next]_vars /\ Fairness

\* doChecks has returned for check run c and, unless one of its calls failed,
\* the check run is completed with a conclusion (failure when the commit has
\* no pull request).
Finalized(c) ==
    /\ c \in DOMAIN dc
    /\ dc[c].pc = "done"
    /\ AllCallsSucceeded(c) =>
            /\ checkRuns[c].status = "completed"
            /\ checkRuns[c].conclusion \in {"success", "failure"}
            /\ checkRuns[c].via \in {"reviews", "botpr"}
            /\ Associated(checkRuns[c].head_sha) = {} =>
                    checkRuns[c].conclusion = "failure"

\* C13: under fair scheduling, every owned check run created as queued is
\* eventually completed with a conclusion by the doChecks invocation of its
\* created event, unless an API call of that invocation fails.
C13_QueuedRunEventuallyCompleted ==
    \A c \in 1..MaxRuns :
        (c \in DOMAIN dc /\ Evaluated(c)) ~> Finalized(c)

C13_Witness ==
    \E c \in DOMAIN dc :
        /\ Evaluated(c) /\ AllCallsSucceeded(c)
        /\ Associated(checkRuns[c].head_sha) = {}
        /\ checkRuns[c].status = "completed"
        /\ checkRuns[c].conclusion = "failure"

\* C14: a check run created by the shortcut of the review handler is never
\* updated: no step changes it, and no doChecks invocation issues an update
\* call that names it.
C14_ShortcutRunNeverUpdated ==
    [][\A c \in DOMAIN checkRuns :
            checkRuns[c].via = "shortcut" =>
                /\ checkRuns'[c] = checkRuns[c]
                /\ \A d \in DOMAIN dc' : UpdatesIn(dc'[d].calls, c) = <<>>]_vars

C14_Witness ==
    \E c \in DOMAIN dc, d \in DOMAIN dc :
        /\ checkRuns[c].via = "shortcut"
        /\ dc[c].pc = "done"
        /\ c < d
        /\ checkRuns[d].head_sha = checkRuns[c].head_sha
        /\ checkRuns[d].via = "reviews"
        /\ Len(UpdatesIn(dc[d].calls, d)) = 2

\* The step was the handling of a pull_request event, or of a
\* check_run.rerequested event for an owned check run.
QueuingEventHandled(h) ==
    \/ h.handler = "pull_request"
    \/ h.handler = "check_run" /\ ~NotOwned(h.app, h.name)

\* C15: a pull_request.opened or pull_request.reopened event, and a
\* check_run.rerequested event for an owned check run, issue exactly one
\* creation call, with status queued, the name Kiali - PR and the head SHA of
\* the event, and no update call; no existing check run, the re-requested one
\* included, is modified.
C15_QueuingHandlersCreateOnce ==
    [][QueuingEventHandled(last') =>
        /\ last'.calls = <<CreateCall(last'.sha, "queued", "")>>
        /\ last'.handler = "pull_request" =>
                /\ last'.action \in {"opened", "reopened"}
                /\ last'.sha = prs[last'.pr].sha
        /\ last'.handler = "check_run" =>
                \E c \in DOMAIN checkRuns :
                    /\ checkRuns[c].head_sha = last'.sha
                    /\ checkRuns[c].app = last'.app
                    /\ checkRuns[c].name = last'.name
        /\ checkRuns' =
                IF Failed(last'.answer, HttpCreated) THEN checkRuns
                ELSE Append(checkRuns, NewRun(APP_ID, CHECK_NAME, last'.sha,
                                              "queued", "", ""))
        /\ \A c \in DOMAIN dc : dc'[c] = dc[c]]_vars

C15_Witness ==
    /\ last.handler = "check_run"
    /\ last.floating = "resolved"
    /\ Len(checkRuns) = 2
    /\ checkRuns[1].via = "reviews"
    /\ checkRuns[1].status = "completed"
    /\ checkRuns[2] = NewRun(APP_ID, CHECK_NAME, checkRuns[1].head_sha,
                             "queued", "", "")

\* C16: isOwnedCheckRun is true exactly when the app id is the configured
\* app id or the name is Kiali - PR; a queued check run is evaluated by
\* doChecks, and updated when its calls succeed, exactly in that case, be it
\* another app's check run named Kiali - PR or a check run of this app under
\* another name, and a re-request creates a check run exactly in that case.
C16_OwnershipIsDisjunction ==
    /\ \A c \in DOMAIN checkRuns :
            isOwnedCheckRun(checkRuns[c]) <=>
                (checkRuns[c].app = APP_ID \/ checkRuns[c].name = CHECK_NAME)
    /\ \A c \in DOMAIN dc :
            dc[c].pc # "pending" /\ dc[c].payload.status = "queued" =>
                /\ dc[c].calls # <<>> <=>
                        (dc[c].payload.app = APP_ID
                            \/ dc[c].payload.name = CHECK_NAME)
                /\ AllCallsSucceeded(c) =>
                        (UpdatesIn(dc[c].calls, c) # <<>> <=>
                            (dc[c].payload.app = APP_ID
                                \/ dc[c].payload.name = CHECK_NAME))
    /\ last.handler = "check_run" =>
            (last.calls # <<>> <=>
                (last.app = APP_ID \/ last.name = CHECK_NAME))

C16_Witness ==
    \E c \in DOMAIN dc, d \in DOMAIN dc :
        /\ dc[c].payload.app # APP_ID
        /\ dc[c].payload.name = CHECK_NAME
        /\ checkRuns[c].status = "completed"
        /\ checkRuns[c].via = "reviews"
        /\ dc[d].payload.app = APP_ID
        /\ dc[d].payload.name # CHECK_NAME
        /\ UpdatesIn(dc[d].calls, d) # <<>>

\* The review event handled last misses a part of the shortcut condition.
ShortcutMissed ==
    /\ last.handler = "pull_request_review"
    /\ \/ last.action = "dismissed"
       \/ last.state # "approved"
       \/ ~IsQe(last.sender)

\* C17: a review event that is dismissed, or whose review state is not
\* approved, or whose sender is not a QE user, makes the review handler issue
\* exactly one creation call, with status queued, and none with status
\* completed; the check run it creates is queued.
C17_OtherReviewEventsQueue ==
    ShortcutMissed =>
        /\ last.calls = <<CreateCall(prs[last.pr].sha, "queued", "")>>
        /\ ~Failed(last.answer, HttpCreated) =>
                checkRuns[Len(checkRuns)] =
                    NewRun(APP_ID, CHECK_NAME, prs[last.pr].sha, "queued", "", "")

C17_Witness ==
    /\ ShortcutMissed
    /\ last.action = "dismissed"
    /\ IsQe(last.sender)
    /\ last.floating = "resolved"
    /\ checkRuns[Len(checkRuns)].status = "queued"

\* The calls of a doChecks invocation that runs alone for check run c of
\* commit sha, when the lookup answers list and every call succeeds.
RECURSIVE AloneGets(_)
AloneGets(list) ==
    IF list = <<>> THEN <<>>
    ELSE <<GetCall(Head(list))>>
         \o (IF prs[Head(list)].author = KIALI_BOT_USER THEN <<>>
             ELSE AloneGets(Tail(list)))

RECURSIVE AloneLists(_)
AloneLists(list) ==
    IF list = <<>> THEN <<>>
    ELSE [k \in 1..NumPages(prs[Head(list)].reviews) |-> ListCall(Head(list), k)]
         \o AloneLists(Tail(list))

AloneMapping(list) == FoldPage(NoReviews, Delivered(list))

AloneCalls(c, sha, list) ==
    <<LookupCall(sha)>> \o AloneGets(list)
    \o (IF \E j \in 1..Len(list) : prs[list[j]].author = KIALI_BOT_USER
        THEN <<UpdateCall(c, "completed", "success")>>
        ELSE <<UpdateCall(c, "in_progress", "")>> \o AloneLists(list)
             \o <<UpdateCall(c, "completed",
                             Conclusion(findQeUsers, AloneMapping(list)))>>)

IsPrefix(s, t) == Len(s) <= Len(t) /\ SubSeq(t, 1, Len(s)) = s

\* Whatever the other invocations did, invocation c has issued the calls it
\* issues alone, up to where it is, and concluded as it does alone.
AsWhenAlone(c) ==
    LET alone == AloneCalls(c, dc[c].payload.head_sha, dc[c].prList)
    IN  /\ IsPrefix(dc[c].calls, alone)
        /\ \A j \in 1..Len(dc[c].calls) :
                dc[c].calls[j].op = "checks.update" => dc[c].calls[j].id = c
        /\ dc[c].conclusion # "" =>
                /\ dc[c].prReviews = AloneMapping(dc[c].prList)
                /\ dc[c].conclusion = Conclusion(findQeUsers, dc[c].prReviews)
        /\ AllCallsSucceeded(c) =>
                /\ dc[c].calls = alone
                /\ checkRuns[c].status = "completed"
                /\ checkRuns[c].conclusion = alone[Len(alone)].conclusion

\* A step of one invocation, or of a queuing handler, leaves every other
\* invocation and every other check run as it was.
OthersUntouched ==
    \A c \in DOMAIN dc :
        dc'[c] # dc[c] \/ checkRuns'[c] # checkRuns[c] =>
            \A d \in DOMAIN dc \ {c} :
                dc'[d] = dc[d] /\ checkRuns'[d] = checkRuns[d]

\* C18: concurrent invocations do not interfere: a doChecks invocation issues
\* update calls only for the check run of its own event, and under every
\* interleaving with other invocations and handlers it issues the calls and
\* reaches the mapping and the conclusion it reaches alone with the same
\* responses; no step of one invocation changes another one.
C18_InvocationsDoNotInterfere ==
    /\ [](\A c \in DOMAIN dc :
            Evaluated(c) /\ dc[c].pc # "pending" => AsWhenAlone(c))
    /\ [][OthersUntouched]_vars

C18_Witness ==
    \E c \in DOMAIN dc, d \in DOMAIN dc :
        /\ c # d
        /\ dc[c].pc = "complete" /\ dc[d].pc = "complete"
        /\ Len(dc[c].calls) > 2 /\ Len(dc[d].calls) > 2
        /\ Conclusion(findQeUsers, dc[c].prReviews)
                # Conclusion(findQeUsers, dc[d].prReviews)

====
